---- MODULE Spec2Model ----
(***************************************************************************)
(* A model of modules/ConfigManager.js: the layered configuration registry *)
(* (defaults, persisted file, environment overrides, explicit overrides),  *)
(* its validation, its watchers, its fire-and-forget persistence and its   *)
(* backup files.                                                           *)
(*                                                                         *)
(* JavaScript runs every synchronous call to completion, so each           *)
(* synchronous method is one action.  An async method is cut at its awaits *)
(* into one action per segment; segments of different calls interleave.    *)
(*                                                                         *)
(* The registry declares some 45 keys.  The model keeps one key of every   *)
(* shape the code distinguishes:                                           *)
(*   host          required string rule, string default                    *)
(*   port          number rule with min/max, int default                   *)
(*   geminiApiKey  required string rule, default may be undefined, secret  *)
(*   logLevel      enum rule, string default                               *)
(*   adminUsers    no rule, array default, secret                          *)
(*   webhookUrl    no rule, default may be undefined, secret               *)
(*   tickRate      number rule with min/max, camel-cased, int default      *)
(*   combatDistance number rule with min/max, float ('number') default     *)
(*   autoResponse  no rule, boolean default true                           *)
(*   aggressiveMode no rule, boolean default false                         *)
(*   tickrate      an ad hoc key that only an environment override makes   *)
(***************************************************************************)
EXTENDS Integers, Sequences, FiniteSets, TLC

VARIABLES
    env,            \* process.env: name -> string, fixed at construction
    initialOptions, \* the constructor's argument (explicit overrides)
    defaultConfig,  \* this.defaultConfig
    config,         \* this.config
    watchers,       \* this.watchers: key -> callbacks in insertion order
    handles,        \* the unwatch closures handed out: key, callback, called yet
    file,           \* the content of config/bot-config.json on disk
    fileOrigin,     \* "external" until saveConfigToFile has written the file
    initPc,         \* where the constructor's initializeConfig() promise is
    fileConfig,     \* what initializeConfig's loadConfigFromFile() returned
    saves,          \* the saveConfigToFile() calls in flight
    last,           \* the most recent call: op, result, save issued, Ready before
    lastArg,        \* its argument (the updates of updateConfig)
    oldConfig,      \* this.config when that call began
    notified,       \* the callback invocations that call made, in order
    unsubscribed,   \* the (key, callback) pairs unwatched and not watched since
    now,            \* the clock, in milliseconds
    artifacts,      \* the backup files on disk: path -> content
    backups,        \* the backup() calls in flight (awaiting writeFile)
    recording       \* history switch, fixed at construction: whether a save in
                    \* flight keeps the snapshot that was active when it was issued

vars == <<recording, env, initialOptions, defaultConfig, config, watchers, handles, file,
          fileOrigin, initPc, fileConfig, saves, last, lastArg, oldConfig, notified,
          unsubscribed, now, artifacts, backups>>

----------------------------------------------------------------------------
(* JavaScript values.  One record shape for all of them, so that any two   *)
(* values can be compared: t is the typeof, n the number (or the object's  *)
(* identity), s the string (or the object's JSON text).                    *)

Undef == [t |-> "undefined", n |-> 0, s |-> ""]
\* null; its t is not its typeof ("object"), which no check of the code reads
Null == [t |-> "null", n |-> 0, s |-> ""]
Num(n) == [t |-> "number", n |-> n, s |-> ""]
\* NaN: a number that no comparison orders and that is not equal to itself
NaN == [t |-> "number", n |-> 0, s |-> "NaN"]
Bool(b) == [t |-> "boolean", n |-> IF b THEN 1 ELSE 0, s |-> ""]
Str(s) == [t |-> "string", n |-> 0, s |-> s]
Obj(ref, text) == [t |-> "object", n |-> ref, s |-> text]

\* Object identities: the array getDefaultConfig builds, one that JSON.parse builds,
\* and none (an array inside a JSON text has no identity).
DefaultRef == 1
ParsedRef == 2
NoRef == 0

EmptyObj == [k \in {} |-> Undef]

\* obj[key] of JavaScript: undefined for a key the object does not have.
Lookup(obj, key) == IF key \in DOMAIN obj THEN obj[key] ELSE Undef

\* { ...a, ...b }
Spread(a, b) ==
    [k \in DOMAIN a \cup DOMAIN b |-> IF k \in DOMAIN b THEN b[k] ELSE a[k]]

\* delete obj[key] on a copy
Delete(obj, key) == [k \in DOMAIN obj \ {key} |-> obj[k]]

\* Object.keys(obj): the modelled keys are enumerated in this one order.
KeyOrder ==
    <<"host", "port", "geminiApiKey", "autoResponse", "aggressiveMode", "combatDistance",
      "logLevel", "tickRate", "adminUsers", "webhookUrl", "tickrate">>

ObjectKeys(obj) == SelectSeq(KeyOrder, LAMBDA k : k \in DOMAIN obj)

RECURSIVE Flatten(_)
Flatten(ss) == IF ss = <<>> THEN <<>> ELSE Head(ss) \o Flatten(Tail(ss))

\* JSON.stringify(obj): a key whose value is undefined is left out, NaN is
\* written as null, and an array is written as its text, without its identity.
JSONstringify(obj) ==
    [k \in {j \in DOMAIN obj : obj[j].t # "undefined"} |->
        IF obj[k].t = "object" THEN Obj(NoRef, obj[k].s)
        ELSE IF obj[k] = NaN THEN Null ELSE obj[k]]

\* JSON.parse(text): every array of the text becomes a new object.
JSONparse(text) ==
    [k \in DOMAIN text |->
        IF text[k].t = "object" THEN Obj(ParsedRef, text[k].s) ELSE text[k]]

----------------------------------------------------------------------------
(* getDefaultConfig *)

\* parseInt on the environment strings of the model: [nan, n].
parseInt(s) ==
    CASE s = "25565" -> [nan |-> FALSE, n |-> 25565]
      [] s = "70000" -> [nan |-> FALSE, n |-> 70000]
      [] s = "0" -> [nan |-> FALSE, n |-> 0]
      [] s = "5" -> [nan |-> FALSE, n |-> 5]
      [] s = "1e1" -> [nan |-> FALSE, n |-> 1]
      [] OTHER -> [nan |-> TRUE, n |-> 0]

\* parseFloat on the environment strings of the model: it reads an exponent,
\* where parseInt stops at the first character that is not a digit.
parseFloat(s) ==
    CASE s = "1e1" -> [nan |-> FALSE, n |-> 10]
      [] OTHER -> parseInt(s)

\* String.prototype.toLowerCase on the environment strings of the model
toLowerCase(s) ==
    CASE s = "TRUE" -> "true"
      [] s = "True" -> "true"
      [] s = "FALSE" -> "false"
      [] OTHER -> s

\* a comparison with 'true' that keeps the case
toBooleanMutant(s) == Bool(s = "true")

\* value.toLowerCase() === 'true'
toBoolean(s) == Bool(toLowerCase(s) = "true")

\* The inner getEnv helper of getDefaultConfig.
getEnv(e, key, defaultValue, type) ==
    IF key \notin DOMAIN e \/ e[key] = ""
    THEN defaultValue
    ELSE CASE type = "number" ->
                  IF parseFloat(e[key]).nan THEN defaultValue
                  ELSE Num(parseFloat(e[key]).n)
           [] type = "boolean" -> toBoolean(e[key])
           [] type = "int" ->
                  IF parseInt(e[key]).nan THEN defaultValue ELSE Num(parseInt(e[key]).n)
           [] OTHER -> Str(e[key])

\* a || b
Or(a, b) == IF a \in {Undef, Null, Str("")} THEN b ELSE a

getDefaultConfig(e) ==
    [host |-> getEnv(e, "MINECRAFT_HOST", Str("localhost"), "string"),
     port |-> getEnv(e, "MINECRAFT_PORT", Num(19132), "int"),
     geminiApiKey |-> Or(getEnv(e, "GEMINI_API_KEY", Undef, "string"),
                         Or(getEnv(e, "GEMINI_KEY", Undef, "string"),
                            getEnv(e, "API_KEY", Undef, "string"))),
     autoResponse |-> getEnv(e, "AUTO_RESPONSE", Bool(TRUE), "boolean"),
     aggressiveMode |-> getEnv(e, "AGGRESSIVE_MODE", Bool(FALSE), "boolean"),
     combatDistance |-> getEnv(e, "COMBAT_DISTANCE", Num(3), "number"),
     logLevel |-> getEnv(e, "LOG_LEVEL", Str("info"), "string"),
     tickRate |-> getEnv(e, "TICK_RATE", Num(20), "int"),
     adminUsers |-> IF getEnv(e, "ADMIN_USERS", Undef, "string") # Undef
                    THEN Obj(DefaultRef, e["ADMIN_USERS"])
                    ELSE Obj(DefaultRef, ""),
     webhookUrl |-> getEnv(e, "WEBHOOK_URL", Undef, "string")]

----------------------------------------------------------------------------
(* getValidationRules and validateConfig *)

NoRule ==
    [type |-> "", required |-> FALSE, hasMin |-> FALSE, min |-> 0, hasMax |-> FALSE,
     max |-> 0, hasMinLength |-> FALSE, minLength |-> 0, hasMaxLength |-> FALSE,
     maxLength |-> 0, enum |-> {}]

getValidationRules ==
    [host |-> [NoRule EXCEPT !.type = "string", !.required = TRUE,
                             !.hasMinLength = TRUE, !.minLength = 1],
     port |-> [NoRule EXCEPT !.type = "number", !.hasMin = TRUE, !.min = 1,
                             !.hasMax = TRUE, !.max = 65535],
     geminiApiKey |-> [NoRule EXCEPT !.type = "string", !.required = TRUE,
                                     !.hasMinLength = TRUE, !.minLength = 1],
     combatDistance |-> [NoRule EXCEPT !.type = "number", !.hasMin = TRUE, !.min = 1,
                                       !.hasMax = TRUE, !.max = 10],
     tickRate |-> [NoRule EXCEPT !.type = "number", !.hasMin = TRUE, !.min = 1,
                                 !.hasMax = TRUE, !.max = 100],
     logLevel |-> [NoRule EXCEPT !.type = "string",
                                 !.enum = {"error", "warn", "info", "debug"}]]

\* Object.entries(this.validationRules) visits the rules in this order.
RuleOrder == <<"host", "port", "geminiApiKey", "combatDistance", "tickRate", "logLevel">>

Msg(key, text, arg) == [key |-> key, text |-> text, arg |-> arg]

\* an exclusive lower bound
belowMutant(n, min) == n <= min

\* value < rule.min
below(n, min) == n < min

\* The body of validateConfig's forEach for one rule after the required check:
\* nothing for an absent value, else the type, range, length and enum messages.
checkErrors(cfg, key) ==
    LET rule == getValidationRules[key]
        value == Lookup(cfg, key)
    IN IF value \in {Undef, Null}
       THEN <<>>
       ELSE (IF rule.type = "string" /\ value.t # "string"
             THEN <<Msg(key, "must be a string", 0)>>
             ELSE IF rule.type = "number" /\ value.t # "number"
             THEN <<Msg(key, "must be a number", 0)>>
             ELSE <<>>)
         \o (IF rule.type = "number" /\ value.t = "number" /\ rule.hasMin
                /\ value # NaN /\ below(value.n, rule.min)
             THEN <<Msg(key, "must be at least", rule.min)>> ELSE <<>>)
         \o (IF rule.type = "number" /\ value.t = "number" /\ rule.hasMax
                /\ value # NaN /\ value.n > rule.max
             THEN <<Msg(key, "must be at most", rule.max)>> ELSE <<>>)
         \o (IF rule.type = "string" /\ value.t = "string" /\ rule.hasMinLength
                /\ Len(value.s) < rule.minLength
             THEN <<Msg(key, "must be at least characters", rule.minLength)>> ELSE <<>>)
         \o (IF rule.type = "string" /\ value.t = "string" /\ rule.hasMaxLength
                /\ Len(value.s) > rule.maxLength
             THEN <<Msg(key, "must be at most characters", rule.maxLength)>> ELSE <<>>)
         \o (IF rule.enum # {} /\ ~(value.t = "string" /\ value.s \in rule.enum)
             THEN <<Msg(key, "must be one of", 0)>> ELSE <<>>)

\* a required check that does not return
afterRequiredMutant(rest) == rest

\* The return after "is required" is pushed: the other checks of the rule are
\* skipped.
afterRequired(rest) == <<>>

\* The body of validateConfig's forEach for one rule: the messages it pushes.
ruleErrors(cfg, key) ==
    LET rule == getValidationRules[key]
        value == Lookup(cfg, key)
    IN IF rule.required /\ value \in {Undef, Null, Str("")}
       THEN <<Msg(key, "is required", 0)>> \o afterRequired(checkErrors(cfg, key))
       ELSE checkErrors(cfg, key)

\* a fail-fast validateConfig: only the first message
validateConfigMutant(cfg) ==
    LET errors == Flatten([i \in 1..Len(RuleOrder) |-> ruleErrors(cfg, RuleOrder[i])])
    IN IF errors = <<>> THEN <<>> ELSE <<errors[1]>>

\* validateConfig on a candidate: the errors array; it throws iff this is not empty.
validateConfig(cfg) ==
    Flatten([i \in 1..Len(RuleOrder) |-> ruleErrors(cfg, RuleOrder[i])])

----------------------------------------------------------------------------
(* getEnvironmentOverrides *)

\* key.startsWith('BOT_'), on the environment names of the model
startsWithBOT(name) == name \in {"BOT_HOST", "BOT_PORT", "BOT_TICK_RATE"}

\* a normalisation to the camel-cased spelling of the key
configKeyMutant(name) ==
    CASE name = "BOT_HOST" -> "host"
      [] name = "BOT_PORT" -> "port"
      [] name = "BOT_TICK_RATE" -> "tickRate"

\* key.substring(4).toLowerCase().replace(/_/g, '')
configKey(name) ==
    CASE name = "BOT_HOST" -> "host"
      [] name = "BOT_PORT" -> "port"
      [] name = "BOT_TICK_RATE" -> "tickrate"

\* overrides that parse numeric text
overrideValueMutant(s) == IF parseInt(s).nan THEN Str(s) ELSE Num(parseInt(s).n)

\* overrides[configKey] = process.env[key]: the string as it is
overrideValue(s) == Str(s)

getEnvironmentOverrides(e) ==
    LET names == {n \in DOMAIN e : startsWithBOT(n)}
    IN [k \in {configKey(n) : n \in names} |->
           overrideValue(e[CHOOSE n \in names : configKey(n) = k])]

----------------------------------------------------------------------------
(* the accessors *)

getConfig == config

SecretFieldSet == {"geminiApiKey", "webhookUrl", "adminUsers"}

\* getPublicConfig deleting what saveConfigToFile deletes, the API key only
getPublicConfigMutant == Delete(config, "geminiApiKey")

getPublicConfig ==
    Delete(Delete(Delete(config, "geminiApiKey"), "webhookUrl"), "adminUsers")

get(key, defaultValue) ==
    IF Lookup(config, key) # Undef THEN Lookup(config, key) ELSE defaultValue

has(key) == Lookup(config, key) # Undef

----------------------------------------------------------------------------
(* bounds *)

\* saveConfigToFile() calls in flight at once
MaxPending == 2
\* unwatch closures handed out
MaxHandles == 2
\* saveConfigToFile() calls in flight at once under SpecWatch
WatchPending == 1
\* the last millisecond of the clock
MaxClock == 1
\* backup() calls in flight at once
MaxBackups == 1

----------------------------------------------------------------------------
(* watchers *)

Callbacks == {"cb1", "cb2"}

Invocation(callback, newValue, oldValue, key) ==
    [callback |-> callback, newValue |-> newValue, oldValue |-> oldValue, key |-> key]

\* What a callback does when it is called: cb2 throws, cb1 returns.
throws(callback) == callback = "cb2"

\* A third callback mutates the registry from inside the notification: it is
\*   () => { if (c.get('logLevel') !== 'debug') c.set('logLevel', 'debug') }
ReentrantCallback == "cb3"
ReentrantUpdate == [logLevel |-> Str("debug")]
reenters(callback, cfg) ==
    callback = ReentrantCallback /\ Lookup(cfg, "logLevel") # Str("debug")

\* One synchronous call in progress: this.config, the number of
\* saveConfigToFile() calls made so far, the invocations made so far and, for
\* each of them, what get(key) returned when the callback was entered.
Round(cfg) == [config |-> cfg, issued |-> 0, notified |-> <<>>, seen |-> <<>>]

\* notifyWatchers without its try/catch: a throw ends the forEach
afterThrowMutant(rest) == <<>>

\* The try/catch around each callback: after a throw the forEach goes on with
\* the callbacks that remain.
afterThrow(rest) == rest

RECURSIVE updateConfigIn(_, _)

\* keyWatchers.forEach: each callback is called with the same three arguments;
\* the re-entrant one runs updateConfig to its end before the next callback,
\* and what it throws is caught like any other throw.
RECURSIVE forEachCallback(_, _, _, _, _)
forEachCallback(st, keyWatchers, key, newValue, oldValue) ==
    IF keyWatchers = <<>>
    THEN st
    ELSE LET callback == Head(keyWatchers)
             rest == Tail(keyWatchers)
             entered == [st EXCEPT
                            !.notified = Append(@, Invocation(callback, newValue,
                                                              oldValue, key)),
                            !.seen = Append(@, Lookup(st.config, key))]
             returned == IF reenters(callback, entered.config)
                         THEN updateConfigIn(entered, ReentrantUpdate)
                         ELSE entered
         IN forEachCallback(returned,
                            IF throws(callback) THEN afterThrow(rest) ELSE rest,
                            key, newValue, oldValue)

\* notifyWatchers(key, newValue, oldValue) within a call: the invocations it
\* makes, in order.  A Set's forEach visits its members in insertion order.
notifyWatchers(st, key, newValue, oldValue) ==
    IF key \in DOMAIN watchers
    THEN forEachCallback(st, watchers[key], key, newValue, oldValue)
    ELSE st

\* this.watchers.get(key), with a new Set for a key that has none
Lookup2(map, key) == IF key \in DOMAIN map THEN map[key] ELSE <<>>

\* Set.prototype.add: a member already in the set stays where it is.
SetAdd(seq, x) == IF \E i \in 1..Len(seq) : seq[i] = x THEN seq ELSE Append(seq, x)

\* an unwatch closure that leaves the callback in the Set
SetDeleteMutant(seq, x) == seq

\* Set.prototype.delete
SetDelete(seq, x) == SelectSeq(seq, LAMBDA y : y # x)

RECURSIVE Sum(_)
Sum(ns) == IF ns = <<>> THEN 0 ELSE Head(ns) + Sum(Tail(ns))

\* getStats(): the fields that count.
getStats ==
    [configSize |-> Len(ObjectKeys(config)),
     watchersCount |->
         LET keys == SelectSeq(KeyOrder, LAMBDA k : k \in DOMAIN watchers)
         IN Sum([i \in 1..Len(keys) |-> Len(watchers[keys[i]])]),
     validationRules |-> Len(RuleOrder)]

\* the path of a call that names no backup file
NoPath == 0 - 1

\* The registry is Ready once the promise of initializeConfig has resolved.
Ready == initPc = "done"

\* A call as last records it: ready is whether the registry was Ready when it
\* began, again whether it is a reset() that follows a reset(), io what became of
\* the file access the call awaited ("" when it awaited none or the access
\* succeeded), errors the messages of the validation error it threw, path the
\* backup file it wrote or read.
CallWith(op, result, saved, io, errors) ==
    [op |-> op, result |-> result, saved |-> saved, ready |-> Ready,
     again |-> op = "reset" /\ last.op = "reset", io |-> io, errors |-> errors,
     path |-> NoPath]

Call(op, result, saved) == CallWith(op, result, saved, "", <<>>)

Pair(key, callback) == [key |-> key, callback |-> callback]

\* watchConfig(key, callback); the closure it returns is kept in handles.
watchConfig(key, callback) ==
    /\ Len(handles) < MaxHandles
    /\ watchers' = Spread(watchers,
           [k \in {key} |-> SetAdd(Lookup2(watchers, key), callback)])
    /\ handles' = Append(handles, [key |-> key, callback |-> callback, called |-> FALSE])
    /\ unsubscribed' = unsubscribed \ {Pair(key, callback)}
    /\ last' = Call("watchConfig", "ok", FALSE)
    /\ lastArg' = EmptyObj
    /\ oldConfig' = config
    /\ notified' = <<>>
    /\ UNCHANGED <<now, artifacts, backups>>
    /\ UNCHANGED <<recording, env, initialOptions, defaultConfig, config, file, fileOrigin,
                   initPc, fileConfig, saves>>

\* The closure watchConfig returned as handles[i] is called.
unwatch(i) ==
    /\ i \in 1..Len(handles)
    /\ LET key == handles[i].key
           callback == handles[i].callback
       IN watchers' =
              IF key \in DOMAIN watchers
              THEN IF SetDelete(watchers[key], callback) = <<>>
                   THEN Delete(watchers, key)
                   ELSE [watchers EXCEPT ![key] = SetDelete(@, callback)]
              ELSE watchers
    /\ handles' = [handles EXCEPT ![i].called = TRUE]
    /\ unsubscribed' = unsubscribed \cup {Pair(handles[i].key, handles[i].callback)}
    /\ last' = Call("unwatch", "ok", FALSE)
    /\ lastArg' = EmptyObj
    /\ oldConfig' = config
    /\ notified' = <<>>
    /\ UNCHANGED <<now, artifacts, backups>>
    /\ UNCHANGED <<recording, env, initialOptions, defaultConfig, config, file, fileOrigin,
                   initPc, fileConfig, saves>>

----------------------------------------------------------------------------
(* persistence *)

Absent == [kind |-> "absent", content |-> EmptyObj]
Corrupt == [kind |-> "corrupt", content |-> EmptyObj]
Json(content) == [kind |-> "json", content |-> content]

\* The error loadConfigFromFile catches: the code of a rejected mkdir or
\* readFile (EACCES stands for every code but ENOENT), ENOENT for an absent
\* file, the SyntaxError of JSON.parse, which has no code, or none.
loadError(ioFails) ==
    IF ioFails THEN "EACCES"
    ELSE IF file.kind = "absent" THEN "ENOENT"
    ELSE IF file.kind = "corrupt" THEN "SyntaxError"
    ELSE ""

\* whether loadConfigFromFile warns: error.code !== 'ENOENT'
loadWarns(ioFails) == loadError(ioFails) \notin {"", "ENOENT"}

\* a loadConfigFromFile that returns what it can parse whatever failed before
loadConfigFromFileMutant(ioFails) ==
    IF file.kind # "json" THEN EmptyObj ELSE JSONparse(file.content)

\* loadConfigFromFile(): every failure (mkdir, readFile, JSON.parse) and an absent
\* file give {}.
loadConfigFromFile(ioFails) ==
    IF ioFails \/ file.kind # "json" THEN EmptyObj ELSE JSONparse(file.content)

\* a saveConfigToFile that has made its directory when it returns its promise
SaveMutant(owner) ==
    [owner |-> owner, phase |-> "write", content |-> EmptyObj,
     active |-> IF recording THEN config' ELSE EmptyObj]

\* saveConfigToFile() up to its first await (mkdir): a call in flight.  active is
\* history: this.config as the call that issues the save leaves it.
Save(owner) ==
    [owner |-> owner, phase |-> "mkdir", content |-> EmptyObj,
     active |-> IF recording THEN config' ELSE EmptyObj]

\* saveConfigToFile: the object it serializes, built from this.config when
\* mkdir has resolved.
cleanConfig == Delete(config, "geminiApiKey")

RemoveAt(seq, i) == [j \in 1..(Len(seq) - 1) |-> IF j < i THEN seq[j] ELSE seq[j + 1]]

\* initializeConfig awaits its saveConfigToFile(); when that one ends, whether it
\* wrote or warned, the promise of initializeConfig resolves.
InitAfterSave(i) == IF saves[i].owner = "init" THEN "done" ELSE initPc

\* saveConfigToFile, mkdir resolved: copy and clean this.config, call writeFile.
saveMkdirDone(i) ==
    /\ i \in 1..Len(saves)
    /\ saves[i].phase = "mkdir"
    /\ saves' = [saves EXCEPT ![i] = [@ EXCEPT !.phase = "write",
                                               !.content = JSONstringify(cleanConfig)]]
    /\ UNCHANGED <<unsubscribed, now, artifacts, backups>>
    /\ UNCHANGED <<recording, env, initialOptions, defaultConfig, config, watchers, handles,
                   file, fileOrigin, initPc, fileConfig, last, lastArg, oldConfig,
                   notified>>

\* a saveConfigToFile whose writes take effect in the order of the calls
mayCompleteMutant(i) == i = 1

\* No lock or queue orders the fs.writeFile calls of different saves: any one in
\* flight may be the next to take effect.
mayComplete(i) == TRUE

\* saveConfigToFile, writeFile resolved: the file holds the text.
saveWriteDone(i) ==
    /\ i \in 1..Len(saves)
    /\ saves[i].phase = "write"
    /\ mayComplete(i)
    /\ file' = Json(saves[i].content)
    /\ fileOrigin' = "saved"
    /\ initPc' = InitAfterSave(i)
    /\ saves' = RemoveAt(saves, i)
    /\ UNCHANGED <<unsubscribed, now, artifacts, backups>>
    /\ UNCHANGED <<recording, env, initialOptions, defaultConfig, config, watchers, handles,
                   fileConfig, last, lastArg, oldConfig, notified>>

\* a saveConfigToFile without its catch block: initializeConfig, which awaits
\* it, rejects
afterWarnMutant(i) == IF saves[i].owner = "init" THEN "failed" ELSE initPc

\* The catch block of saveConfigToFile warns and returns: the promise resolves.
afterWarn(i) == InitAfterSave(i)

\* saveConfigToFile, mkdir or writeFile rejected: a warning, nothing written.
saveFailed(i) ==
    /\ i \in 1..Len(saves)
    /\ initPc' = afterWarn(i)
    /\ saves' = RemoveAt(saves, i)
    /\ UNCHANGED <<unsubscribed, now, artifacts, backups>>
    /\ UNCHANGED <<recording, env, initialOptions, defaultConfig, config, watchers, handles,
                   file, fileOrigin, fileConfig, last, lastArg, oldConfig, notified>>

----------------------------------------------------------------------------
(* initializeConfig, from the resolution of loadConfigFromFile() on *)

\* the merge with the file spread after the environment overrides
mergeConfigMutant(fc) ==
    Spread(Spread(Spread(defaultConfig, getEnvironmentOverrides(env)), fc),
           initialOptions)

\* defaults -> file -> environment -> initial options
mergeConfig(fc) ==
    Spread(Spread(Spread(defaultConfig, fc), getEnvironmentOverrides(env)),
           initialOptions)

initializeConfig(ioFails) ==
    /\ initPc = "loading"
    /\ Len(saves) < MaxPending
    /\ fileConfig' = loadConfigFromFile(ioFails)
    /\ config' = mergeConfig(fileConfig')
    /\ IF validateConfig(config') = <<>>
       THEN /\ saves' = Append(saves, Save("init"))
            /\ initPc' = "saving"
            /\ last' = Call("initializeConfig", "ok", TRUE)
       ELSE /\ saves' = saves
            /\ initPc' = "failed"
            /\ last' = Call("initializeConfig", "error", FALSE)
    /\ lastArg' = EmptyObj
    /\ oldConfig' = config
    /\ notified' = <<>>
    /\ UNCHANGED <<unsubscribed, now, artifacts, backups>>
    /\ UNCHANGED <<recording, env, initialOptions, defaultConfig, watchers, handles, file,
                   fileOrigin>>

----------------------------------------------------------------------------
(* updateConfig, set, reset *)

\* updateConfig without the rollback of its catch block
rollbackMutant(old, temp) == temp

\* The catch block of updateConfig: what this.config is set back to.
rollback(old, temp) == old

\* an updateConfig that notifies the watchers of every key of the snapshot
keysToNotifyMutant(updates, old) == ObjectKeys(Spread(old, updates))

\* Object.keys(updates)
keysToNotify(updates, old) == ObjectKeys(updates)

\* Object.keys(updates).forEach of updateConfig
RECURSIVE forEachUpdated(_, _, _, _)
forEachUpdated(st, keys, updates, old) ==
    IF keys = <<>>
    THEN st
    ELSE forEachUpdated(notifyWatchers(st, Head(keys), Lookup(updates, Head(keys)),
                                       Lookup(old, Head(keys))),
                        Tail(keys), updates, old)

\* an updateConfig that calls saveConfigToFile before it validates
rejectedMutant(st) == [st EXCEPT !.issued = @ + 1]

\* The throw of the catch block ends updateConfig: no save, no notification.
rejected(st) == st

\* The body of updateConfig(updates), run on the call in progress: a candidate
\* that fails validation is rolled back and nothing else happens, else the save
\* is issued and the watchers of the updated keys are notified.
updateConfigIn(st, updates) ==
    LET tempConfig == Spread(st.config, updates)
    IN IF validateConfig(tempConfig) # <<>>
       THEN rejected([st EXCEPT !.config = rollback(st.config, tempConfig)])
       ELSE forEachUpdated([st EXCEPT !.config = tempConfig, !.issued = @ + 1],
                           keysToNotify(updates, st.config), updates, st.config)

\* The saves a call issued, appended to those pending.
Issue(n) == saves \o [i \in 1..n |-> Save("call")]

\* updateConfig(updates) but for what last records of it.
applyUpdates(updates) ==
    /\ \E done \in {updateConfigIn(Round(config), updates)} :
          /\ Len(saves) + done.issued <= MaxPending
          /\ config' = done.config
          /\ saves' = Issue(done.issued)
          /\ notified' = done.notified
    /\ lastArg' = updates
    /\ oldConfig' = config
    /\ UNCHANGED <<unsubscribed, now, artifacts, backups>>
    /\ UNCHANGED <<recording, env, initialOptions, defaultConfig, watchers, handles, file,
                   fileOrigin, initPc, fileConfig>>

updateConfig(updates) ==
    /\ applyUpdates(updates)
    /\ last' = LET errors == validateConfig(Spread(config, updates))
               IN IF errors # <<>>
                  THEN CallWith("updateConfig", "error", FALSE, "", errors)
                  ELSE Call("updateConfig", "ok", TRUE)

set(key, value) == updateConfig([k \in {key} |-> value])

\* The keys reset() compares.
keysToCompare(old, new) == ObjectKeys(old)

\* a reset() that notifies without comparing
differsMutant(old, new, key) == TRUE

\* oldConfig[key] !== this.config[key]
differs(old, new, key) ==
    Lookup(old, key) # Lookup(new, key) \/ Lookup(old, key) = NaN

\* Object.keys(oldConfig).forEach of reset: the comparison and the new value
\* read this.config as it is when the key's turn comes.
RECURSIVE forEachCompared(_, _, _)
forEachCompared(st, keys, old) ==
    IF keys = <<>>
    THEN st
    ELSE LET key == Head(keys)
         IN forEachCompared(IF differs(old, st.config, key)
                            THEN notifyWatchers(st, key, Lookup(st.config, key),
                                                Lookup(old, key))
                            ELSE st,
                            Tail(keys), old)

\* The body of reset(), run on the call in progress.
resetIn(st) ==
    LET done == forEachCompared([st EXCEPT !.config = defaultConfig],
                                keysToCompare(st.config, defaultConfig), st.config)
    IN [done EXCEPT !.issued = @ + 1]

reset ==
    /\ LET done == resetIn(Round(config))
       IN /\ Len(saves) + done.issued <= MaxPending
          /\ config' = done.config
          /\ notified' = done.notified
          /\ saves' = Issue(done.issued)
    /\ last' = Call("reset", "ok", TRUE)
    /\ lastArg' = EmptyObj
    /\ oldConfig' = config
    /\ UNCHANGED <<unsubscribed, now, artifacts, backups>>
    /\ UNCHANGED <<recording, env, initialOptions, defaultConfig, watchers, handles, file,
                   fileOrigin, initPc, fileConfig>>

----------------------------------------------------------------------------
(* backup and restore *)

\* A backup file: kind and content as for the configuration file, and (history)
\* the active snapshot when the backup() that wrote it was called.
Artifact(f, snapshot) ==
    [kind |-> f.kind, content |-> f.content, snapshot |-> snapshot]

\* new Date().toISOString() with its colons and dots replaced: one text per
\* millisecond.
timestamp == now

\* path.join(dirname, `bot-config-backup-${timestamp}.json`): one path per
\* timestamp.
backupPath(ts) == ts

\* A millisecond passes.
Tick ==
    /\ now < MaxClock
    /\ now' = now + 1
    /\ UNCHANGED <<recording, env, initialOptions, defaultConfig, config, watchers, handles,
                   file, fileOrigin, initPc, fileConfig, saves, last, lastArg,
                   oldConfig, notified, unsubscribed, artifacts, backups>>

\* a catch block that logs and returns
afterCatchMutant == "ok"

\* The catch blocks of backup() and restore() log the error and throw it again.
afterCatch == "error"

\* a backup() that writes the defaults
backupTextMutant == JSONstringify(Delete(Delete(Delete(defaultConfig,
                        "geminiApiKey"), "webhookUrl"), "adminUsers"))

\* JSON.stringify(this.getPublicConfig(), null, 2)
backupText == JSONstringify(getPublicConfig)

\* backup() up to its await: the path and the text passed to fs.writeFile are
\* computed when backup() is called.
backup ==
    /\ Len(backups) < MaxBackups
    /\ backups' = Append(backups, [path |-> backupPath(timestamp),
                                    content |-> backupText,
                                    snapshot |-> config])
    /\ UNCHANGED <<recording, env, initialOptions, defaultConfig, config, watchers, handles,
                   file, fileOrigin, initPc, fileConfig, saves, last, lastArg,
                   oldConfig, notified, unsubscribed, now, artifacts>>

\* backup(), writeFile resolved: the file at the path holds the text, whatever
\* it held before; backup() returns the path.
backupWriteDone(i) ==
    /\ i \in 1..Len(backups)
    /\ artifacts' = [p \in DOMAIN artifacts \cup {backups[i].path} |->
                        IF p = backups[i].path
                        THEN Artifact(Json(backups[i].content), backups[i].snapshot)
                        ELSE artifacts[p]]
    /\ backups' = RemoveAt(backups, i)
    /\ last' = [Call("backup", "ok", FALSE) EXCEPT !.path = backups[i].path]
    /\ lastArg' = EmptyObj
    /\ oldConfig' = config
    /\ notified' = <<>>
    /\ UNCHANGED <<recording, env, initialOptions, defaultConfig, config, watchers, handles,
                   file, fileOrigin, initPc, fileConfig, saves, unsubscribed, now>>

\* backup(), writeFile rejected: the catch block.
backupWriteFailed(i) ==
    /\ i \in 1..Len(backups)
    /\ backups' = RemoveAt(backups, i)
    /\ last' = [CallWith("backup", afterCatch, FALSE, "failed", <<>>)
                   EXCEPT !.path = backups[i].path]
    /\ lastArg' = EmptyObj
    /\ oldConfig' = config
    /\ notified' = <<>>
    /\ UNCHANGED <<recording, env, initialOptions, defaultConfig, config, watchers, handles,
                   file, fileOrigin, initPc, fileConfig, saves, unsubscribed, now,
                   artifacts>>

\* restore(backupPath), from the moment readFile settles: a rejected read and an
\* unparseable text go to the catch block, a parsed text to updateConfig, whose
\* validation error goes to the catch block as well.
restore(path, ioFails) ==
    IF ioFails \/ path \notin DOMAIN artifacts \/ artifacts[path].kind # "json"
    THEN /\ last' = [CallWith("restore", afterCatch, FALSE,
                              IF ioFails \/ path \notin DOMAIN artifacts
                              THEN "failed" ELSE "corrupt", <<>>)
                        EXCEPT !.path = path]
         /\ lastArg' = EmptyObj
         /\ oldConfig' = config
         /\ notified' = <<>>
         /\ UNCHANGED <<recording, env, initialOptions, defaultConfig, config, watchers,
                        handles, file, fileOrigin, initPc, fileConfig, saves,
                        unsubscribed, now, artifacts, backups>>
    ELSE LET backupConfig == JSONparse(artifacts[path].content)
             errors == validateConfig(Spread(config, backupConfig))
         IN /\ applyUpdates(backupConfig)
            /\ last' = [CallWith("restore",
                                 IF errors # <<>> THEN afterCatch ELSE "ok",
                                 errors = <<>>, "", errors)
                           EXCEPT !.path = path]

----------------------------------------------------------------------------
(* specifications *)

Env(names) == [n \in DOMAIN names |-> names[n]]

\* no backup file on disk
NoArtifacts == [p \in {} |-> Absent]

Constructed(envs, options, files, backupFiles) ==
    /\ env \in envs
    /\ initialOptions \in options
    /\ file \in files
    /\ fileOrigin = "external"
    /\ defaultConfig = getDefaultConfig(env)
    /\ config = EmptyObj
    /\ watchers = EmptyObj
    /\ handles = <<>>
    /\ initPc = "loading"
    /\ fileConfig = EmptyObj
    /\ saves = <<>>
    /\ last = [op |-> "constructor", result |-> "ok", saved |-> FALSE,
               ready |-> FALSE, again |-> FALSE, io |-> "", errors |-> <<>>,
               path |-> NoPath]
    /\ lastArg = EmptyObj
    /\ oldConfig = EmptyObj
    /\ notified = <<>>
    /\ unsubscribed = {}
    /\ now = 0
    /\ backups = <<>>
    /\ artifacts \in backupFiles

InitOf(envs, options, files, backupFiles) ==
    /\ Constructed(envs, options, files, backupFiles)
    /\ recording = FALSE

InitWith(envs, options, files) == InitOf(envs, options, files, {NoArtifacts})

Persist ==
    \E i \in 1..MaxPending : saveMkdirDone(i) \/ saveWriteDone(i) \/ saveFailed(i)

\* Spec: the registry with its mutators and its persistence; no watcher is
\* registered.  The environment may lack the API key, which the explicit options
\* may supply.
Envs == {EmptyObj, [GEMINI_API_KEY |-> "envkey", ADMIN_USERS |-> "alice,bob"]}
Options == {EmptyObj, [geminiApiKey |-> Str("abc123")]}
Files == {Absent}
Updates == {[port |-> Num(25565)], [port |-> Num(70000)],
            [webhookUrl |-> Str("https://hook"), geminiApiKey |-> Str("newkey")]}

Init == InitWith(Envs, Options, Files)

Next ==
    \/ \E b \in BOOLEAN : initializeConfig(b)
    \/ \E u \in Updates : updateConfig(u)
    \/ reset
    \/ Persist

Spec == Init /\ [][Next]_vars

\* SpecInit: initialization over every combination of the four sources.
InitEnvs == {EmptyObj,
             [GEMINI_API_KEY |-> "envkey"],
             [GEMINI_API_KEY |-> "envkey", BOT_HOST |-> "envhost"],
             [GEMINI_API_KEY |-> "envkey", BOT_PORT |-> "25565"],
             [GEMINI_API_KEY |-> "envkey", MINECRAFT_HOST |-> "mchost",
              BOT_TICK_RATE |-> "5"]}
InitOptions == {EmptyObj, [host |-> Str("exphost")], [port |-> Num(25565)],
                [host |-> Str("")]}
InitFiles == {Absent, Corrupt,
              Json([host |-> Str("filehost"), port |-> Num(3000)]),
              Json([logLevel |-> Str("debug"), tickrate |-> Num(7)])}
InitUpdates == {[logLevel |-> Str("warn")]}

InitI == InitWith(InitEnvs, InitOptions, InitFiles)

NextI ==
    \/ \E b \in BOOLEAN : initializeConfig(b)
    \/ \E u \in InitUpdates : updateConfig(u)
    \/ reset
    \/ Persist

SpecInit == InitI /\ [][NextI]_vars

\* SpecWatch: watchers on one key, two callbacks, with the mutators.
WatchEnvs == {[GEMINI_API_KEY |-> "envkey"]}
WatchKeys == {"logLevel"}
WatchUpdates == {[logLevel |-> Str("debug")], [logLevel |-> Str("info")],
                 [logLevel |-> Str("verbose")]}

InitW == InitWith(WatchEnvs, {EmptyObj}, {Absent})

NextW ==
    \/ \E b \in BOOLEAN : Len(saves) < WatchPending /\ initializeConfig(b)
    \/ \E u \in WatchUpdates : Len(saves) < WatchPending /\ updateConfig(u)
    \/ Len(saves) < WatchPending /\ reset
    \/ \E k \in WatchKeys, cb \in Callbacks : watchConfig(k, cb)
    \/ \E i \in 1..MaxHandles : unwatch(i)
    \/ Persist

SpecWatch == InitW /\ [][NextW]_vars

\* SpecRace: the mutators and their saves when no I/O fails.
RaceUpdates == {[port |-> Num(25565)], [port |-> Num(19132)]}

NextR ==
    \/ initializeConfig(FALSE)
    \/ \E u \in RaceUpdates : updateConfig(u)
    \/ reset
    \/ \E i \in 1..MaxPending : saveMkdirDone(i) \/ saveWriteDone(i)

SpecRace == InitW /\ [][NextR]_vars

\* SpecFair: SpecRace with its asynchronous steps scheduled fairly: the load
\* that the constructor starts and a save that awaits fs.mkdir or fs.writeFile
\* are not left waiting forever, and none fails.  Nothing obliges the caller to
\* make a call.
SpecFair ==
    /\ InitW
    /\ [][NextR]_vars
    /\ WF_vars(initializeConfig(FALSE))
    /\ WF_vars(\E i \in 1..MaxPending : saveMkdirDone(i))
    /\ WF_vars(\E i \in 1..MaxPending : saveWriteDone(i))

\* SpecStale: the calls and saves of SpecRace, each save in flight keeping the
\* snapshot that was active when it was issued.
InitS ==
    /\ Constructed(WatchEnvs, {EmptyObj}, {Absent}, {NoArtifacts})
    /\ recording = TRUE

SpecStale == InitS /\ [][NextR]_vars

\* SpecThrow: watchers on two keys, one callback that throws, updates of both
\* keys; a call is made when the save of the call before it has settled.
ThrowKeys == {"logLevel", "port"}
ThrowUpdates == {[logLevel |-> Str("debug"), port |-> Num(19132)],
                 [logLevel |-> Str("info"), port |-> Num(25565)]}

NextT ==
    \/ \E b \in BOOLEAN : saves = <<>> /\ initializeConfig(b)
    \/ \E u \in ThrowUpdates : saves = <<>> /\ updateConfig(u)
    \/ saves = <<>> /\ reset
    \/ \E k \in ThrowKeys, cb \in Callbacks : watchConfig(k, cb)
    \/ Persist

SpecThrow == InitW /\ [][NextT]_vars

\* SpecValidate: updates that break the rules of one to four keys at once and
\* may take the value of other keys away.
RuleKeys == {RuleOrder[i] : i \in 1..Len(RuleOrder)}
ViolatingValues ==
    [host |-> {Str(""), Num(5)},
     port |-> {Num(0), Num(70000), Str("25565")},
     geminiApiKey |-> {Str(""), Undef},
     logLevel |-> {Str("verbose"), Num(3)}]
AbsentValues == {Undef, Null}
ValidateUpdates ==
    {u \in UNION {[D -> AbsentValues \cup UNION {ViolatingValues[k] : k \in DOMAIN ViolatingValues}] :
                     D \in (SUBSET DOMAIN ViolatingValues) \ {{}}} :
        /\ \A k \in DOMAIN u : u[k] \in ViolatingValues[k] \cup AbsentValues
        /\ \E k \in DOMAIN u : u[k] \in ViolatingValues[k]}

NextV ==
    \/ \E b \in BOOLEAN : initializeConfig(b)
    \/ \E u \in ValidateUpdates : updateConfig(u)
    \/ Persist

SpecValidate == InitW /\ [][NextV]_vars

\* SpecBackup: backups and restores between updates of the port, with a watcher
\* on the port; two backup files that no backup() wrote are on disk at the
\* start, one that does not parse and one whose port is out of range.  The
\* caller awaits each backup(), and makes a call when the save of the call
\* before it has settled.
CorruptPath == 0 - 2
InvalidPath == 0 - 3
MissingPath == 0 - 4
BackupFiles ==
    [p \in {CorruptPath, InvalidPath} |->
        IF p = CorruptPath THEN Artifact(Corrupt, EmptyObj)
        ELSE Artifact(Json([port |-> Num(70000), logLevel |-> Str("debug")]),
                      EmptyObj)]
RestorePaths == {CorruptPath, InvalidPath, MissingPath} \cup 0..MaxClock
BackupUpdates == {[port |-> Num(25565)], [port |-> Num(19132)]}

InitB == InitOf(WatchEnvs, {EmptyObj}, {Absent}, {BackupFiles})

NextB ==
    \/ \E b \in BOOLEAN : saves = <<>> /\ initializeConfig(b)
    \/ \E u \in BackupUpdates : saves = <<>> /\ updateConfig(u)
    \/ watchConfig("port", "cb1")
    \/ Tick
    \/ backups = <<>> /\ backup
    \/ \E i \in 1..MaxBackups : backupWriteDone(i) \/ backupWriteFailed(i)
    \/ \E p \in RestorePaths, b \in BOOLEAN :
           saves = <<>> /\ restore(p, b)
    \/ Persist

SpecBackup == InitB /\ [][NextB]_vars

------------------------------------------------------------\* SpecPersist: every mutator, restore() included, with a watcher on the port;
\* the clock stands still, no I/O fails, and a call is made when the save of the
\* call before it has settled.
PersistPaths == 0..MaxClock

NextP ==
    \/ saves = <<>> /\ initializeConfig(FALSE)
    \/ \E u \in RaceUpdates : saves = <<>> /\ updateConfig(u)
    \/ saves = <<>> /\ reset
    \/ handles = <<>> /\ watchConfig("port", "cb1")
    \/ backups = <<>> /\ backup
    \/ \E i \in 1..MaxBackups : backupWriteDone(i)
    \/ \E p \in PersistPaths : saves = <<>> /\ restore(p, FALSE)
    \/ \E i \in 1..MaxPending : saveMkdirDone(i) \/ saveWriteDone(i)

SpecPersist == InitOf(WatchEnvs, {EmptyObj}, {Absent}, {NoArtifacts}) /\ [][NextP]_vars

\* SpecBounds: set() on the keys that have a number rule with both bounds, with
\* the values at both bounds and next to them outside, and one far outside; the
\* caller makes a call when the save of the call before it has settled, and no
\* save fails.
NumberKeys ==
    {key \in DOMAIN getValidationRules :
        LET rule == getValidationRules[key]
        IN rule.type = "number" /\ rule.hasMin /\ rule.hasMax}
BoundValues(key) ==
    LET rule == getValidationRules[key]
    IN {rule.min - 1, rule.min, rule.max, rule.max + 1, 70000}

NextN ==
    \/ \E b \in BOOLEAN : saves = <<>> /\ initializeConfig(b)
    \/ \E key \in NumberKeys : \E v \in BoundValues(key) : saves = <<>> /\ set(key, Num(v))
    \/ \E i \in 1..MaxPending : saveMkdirDone(i) \/ saveWriteDone(i)

SpecBounds == InitW /\ [][NextN]_vars

\* SpecEnv: initializations with BOT_PORT in the environment, as numeric text
\* inside the bounds of the port, as other text and empty, and explicit options
\* that give the port a number, a string, undefined, null or nothing.
EnvEnvs == {[GEMINI_API_KEY |-> "envkey"]}
           \cup {[GEMINI_API_KEY |-> "envkey", BOT_PORT |-> v] : v \in {"25565", "abc", ""}}
EnvOptions == {EmptyObj, [host |-> Str("exphost")], [port |-> Num(3000)],
               [port |-> Str("3000")], [port |-> Undef], [port |-> Null]}

SpecEnv == InitWith(EnvEnvs, EnvOptions, {Absent}) /\ [][NextI]_vars

\* SpecDefaults: the registry constructed in environments that give the inputs
\* of an int, a float and two boolean defaults no value, the empty string, text
\* that is no number, text that parseInt and parseFloat read differently, and
\* "TRUE" and "false".
DefaultNames == {"MINECRAFT_PORT", "COMBAT_DISTANCE", "AUTO_RESPONSE", "AGGRESSIVE_MODE"}
DefaultInputs == {"", "abc", "1e1", "TRUE", "false"}
DefaultEnvs ==
    {Spread([GEMINI_API_KEY |-> "envkey"], e) :
        e \in UNION {[D -> DefaultInputs] : D \in SUBSET DefaultNames}}

NextD ==
    \/ saves = <<>> /\ initializeConfig(FALSE)
    \/ saves = <<>> /\ reset
    \/ \E i \in 1..MaxPending : saveMkdirDone(i) \/ saveWriteDone(i)

SpecDefaults == InitWith(DefaultEnvs, {EmptyObj}, {Absent}) /\ [][NextD]_vars

\* SpecReentrant: a callback that sets logLevel from inside the notification is
\* registered for logLevel or the port, before or after a callback that only
\* returns; the caller makes a call when the saves of the call before it have
\* settled.
ReentrantWatches == {Pair("logLevel", ReentrantCallback), Pair("port", ReentrantCallback),
                     Pair("logLevel", "cb1")}
ReentrantUpdates == {[logLevel |-> Str("warn")],
                     [port |-> Num(25565), logLevel |-> Str("warn")],
                     [logLevel |-> Str("debug")]}

NextC ==
    \/ saves = <<>> /\ initializeConfig(FALSE)
    \/ \E u \in ReentrantUpdates : saves = <<>> /\ updateConfig(u)
    \/ saves = <<>> /\ reset
    \/ \E w \in ReentrantWatches : watchConfig(w.key, w.callback)
    \/ \E i \in 1..MaxPending : saveMkdirDone(i) \/ saveWriteDone(i)

SpecReentrant == InitW /\ [][NextC]_vars

\* SpecFrame: updates the rules accept and refuse, backups, and restores of a
\* backup() file and of a file whose port is out of range, with a watcher on the
\* port; the caller makes a call when the save of the call before it has
\* settled, and no file access fails.
FrameUpdates == {[port |-> Num(25565)], [port |-> Num(70000)]}
FramePaths == {InvalidPath} \cup 0..MaxClock

NextF ==
    \/ saves = <<>> /\ initializeConfig(FALSE)
    \/ \E u \in FrameUpdates : saves = <<>> /\ updateConfig(u)
    \/ handles = <<>> /\ watchConfig("port", "cb1")
    \/ backups = <<>> /\ backup
    \/ \E i \in 1..MaxBackups : backupWriteDone(i)
    \/ \E p \in FramePaths : saves = <<>> /\ restore(p, FALSE)
    \/ \E i \in 1..MaxPending : saveMkdirDone(i) \/ saveWriteDone(i)

SpecFrame == InitB /\ [][NextF]_vars

\* SpecKeys: a callback watches the port, the log level or both, and updates
\* name one of these keys, both, or a key that nothing watches; the caller makes
\* a call when the save of the call before it has settled.
KeyUpdates == {[port |-> Num(25565)], [logLevel |-> Str("debug")],
               [port |-> Num(19132), logLevel |-> Str("info")],
               [webhookUrl |-> Str("https://hook")]}

NextK ==
    \/ saves = <<>> /\ initializeConfig(FALSE)
    \/ \E u \in KeyUpdates : saves = <<>> /\ updateConfig(u)
    \/ \E k \in ThrowKeys : watchConfig(k, "cb1")
    \/ \E i \in 1..MaxPending : saveMkdirDone(i) \/ saveWriteDone(i)

SpecKeys == InitW /\ [][NextK]_vars

\* SpecMerge: backups and restores between updates that change the port, set
\* the webhook address or add a key the defaults do not have; the clock stands
\* still, so every backup() writes the same path; no I/O fails, and a call is
\* made when the save of the call before it has settled.
MergeUpdates == {[port |-> Num(25565)], [webhookUrl |-> Str("https://hook")],
                 [tickrate |-> Str("5")]}
MergePaths == {InvalidPath} \cup 0..MaxClock

NextM ==
    \/ saves = <<>> /\ initializeConfig(FALSE)
    \/ \E u \in MergeUpdates : saves = <<>> /\ updateConfig(u)
    \/ backups = <<>> /\ backup
    \/ \E i \in 1..MaxBackups : backupWriteDone(i)
    \/ \E p \in MergePaths : saves = <<>> /\ restore(p, FALSE)
    \/ \E i \in 1..MaxPending : saveMkdirDone(i) \/ saveWriteDone(i)

SpecMerge == InitB /\ [][NextM]_vars

\* SpecRound: backups and restores between updates that change the port or
\* give NaN to the port or to a key without a rule; the clock stands still, no
\* I/O fails, and a call is made when the save of the call before it has
\* settled.
RoundUpdates == {[port |-> Num(25565)], [port |-> NaN], [tickrate |-> NaN]}

NextO ==
    \/ saves = <<>> /\ initializeConfig(FALSE)
    \/ \E u \in RoundUpdates : saves = <<>> /\ updateConfig(u)
    \/ backups = <<>> /\ backup
    \/ \E i \in 1..MaxBackups : backupWriteDone(i)
    \/ \E p \in 0..MaxClock : saves = <<>> /\ restore(p, FALSE)
    \/ \E i \in 1..MaxPending : saveMkdirDone(i) \/ saveWriteDone(i)

SpecRound == InitW /\ [][NextO]_vars

\* SpecRead: the read operations between the mutators, with a watcher on the
\* port; the caller of getConfig() or getPublicConfig() reassigns, adds or
\* deletes a top-level key of the object it was given.  No I/O fails, and a
\* mutator is called when the save of the call before it has settled.
ReadOps == {"get", "has", "getConfig", "getPublicConfig", "getStats"}
CopyOps == {"getConfig", "getPublicConfig"}
CallerKeys == {"port", "tickrate"}
CallerValues == {Num(1), Undef}
ReadUpdates == {[port |-> Num(25565)], [webhookUrl |-> Str("https://hook")]}

\* get, has, getConfig, getPublicConfig and getStats: no statement of theirs
\* assigns to a field of the registry, awaits or throws; the call returns what
\* the operator of its name gives in this state.
read(op) ==
    /\ last' = Call(op, "ok", FALSE)
    /\ lastArg' = EmptyObj
    /\ oldConfig' = config
    /\ notified' = <<>>
    /\ UNCHANGED <<unsubscribed, now, artifacts, backups>>
    /\ UNCHANGED <<recording, env, initialOptions, defaultConfig, config, watchers, handles,
                   file, fileOrigin, initPc, fileConfig, saves>>

\* The object the caller holds after result[key] = value, or after
\* delete result[key] when value is undefined.
written(obj, key, value) ==
    IF value = Undef THEN Delete(obj, key) ELSE Spread(obj, [k \in {key} |-> value])

\* a getConfig() that returns this.config itself
afterCallerWriteMutant(cfg, held) == held

\* this.config when the caller has written to the object it was given:
\* getConfig() and getPublicConfig() return { ...this.config }, a new object.
afterCallerWrite(cfg, held) == cfg

\* getConfig() or getPublicConfig(), and then a write by the caller to a
\* top-level key of the result; lastArg is the object the caller holds.
callerWrites(op, key, value) ==
    LET held == written(IF op = "getConfig" THEN getConfig ELSE getPublicConfig,
                        key, value)
    IN /\ config' = afterCallerWrite(config, held)
       /\ last' = Call(op, "ok", FALSE)
       /\ lastArg' = held
       /\ oldConfig' = config
       /\ notified' = <<>>
       /\ UNCHANGED <<unsubscribed, now, artifacts, backups>>
       /\ UNCHANGED <<recording, env, initialOptions, defaultConfig, watchers, handles,
                      file, fileOrigin, initPc, fileConfig, saves>>

NextG ==
    \/ saves = <<>> /\ initializeConfig(FALSE)
    \/ \E u \in ReadUpdates : saves = <<>> /\ updateConfig(u)
    \/ saves = <<>> /\ reset
    \/ handles = <<>> /\ watchConfig("port", "cb1")
    \/ \E op \in ReadOps : read(op)
    \/ \E op \in CopyOps, k \in CallerKeys, v \in CallerValues : callerWrites(op, k, v)
    \/ \E i \in 1..MaxPending : saveMkdirDone(i) \/ saveWriteDone(i)

SpecRead == InitW /\ [][NextG]_vars

----------------
(* properties *)

AllKeys == {KeyOrder[i] : i \in 1..Len(KeyOrder)}

\* The invocations the last call made for one key, in order.
NotifiedFor(key) == SelectSeq(notified, LAMBDA inv : inv.key = key)

\* C1: once the registry is Ready, after every mutating call that returned
\* successfully the active snapshot satisfies every validation rule.
C1_ActiveSnapshotValid ==
    (/\ last.result = "ok"
     /\ \/ last.op = "initializeConfig" /\ Ready
        \/ last.op \in {"updateConfig", "reset"} /\ last.ready)
        => validateConfig(getConfig) = <<>>

\* C2: an updateConfig whose candidate (the snapshot before the call with the
\* updates applied) fails validation raises the error and leaves what get and
\* getConfig return as it was before the call, key by key.
C2_Rollback ==
    (last.op = "updateConfig" /\ validateConfig(Spread(oldConfig, lastArg)) # <<>>)
        => /\ last.result = "error"
           /\ DOMAIN getConfig = DOMAIN oldConfig
           /\ \A k \in AllKeys :
                  /\ Lookup(getConfig, k) = Lookup(oldConfig, k)
                  /\ get(k, Undef) = Lookup(oldConfig, k)

C2_Witness ==
    /\ Ready
    /\ last.op = "updateConfig"
    /\ last.result = "error"
    /\ lastArg = [port |-> Num(70000)]
    /\ Lookup(oldConfig, "port") = Num(25565)

\* C3: nothing saveConfigToFile writes to the configuration file contains a key
\* of the SecretFieldSet.
C3_NoSecretInFile ==
    fileOrigin = "saved" => DOMAIN file.content \cap SecretFieldSet = {}

\* C4: getPublicConfig() has no key of the SecretFieldSet and has every other key
\* of the active snapshot with its value, while getConfig() still has the secret
\* values: a secret just set through updateConfig is what getConfig() returns.
C4_PublicConfigRedacted ==
    /\ DOMAIN getPublicConfig \cap SecretFieldSet = {}
    /\ \A k \in DOMAIN config \ SecretFieldSet :
           k \in DOMAIN getPublicConfig /\ getPublicConfig[k] = config[k]
    /\ (last.op = "updateConfig" /\ last.result = "ok")
           => \A k \in DOMAIN lastArg \cap SecretFieldSet : getConfig[k] = lastArg[k]

C4_Witness ==
    /\ last.op = "updateConfig"
    /\ last.result = "ok"
    /\ lastArg = [webhookUrl |-> Str("https://hook"), geminiApiKey |-> Str("newkey")]
    /\ getConfig["geminiApiKey"] = Str("newkey")
    /\ Lookup(getConfig, "webhookUrl") = Str("https://hook")
    /\ "adminUsers" \in DOMAIN getConfig
    /\ "port" \in DOMAIN getPublicConfig

\* The value the merge precedence gives a key: explicit override, else environment
\* override, else the loaded file, else the computed default.
Precedence(k) ==
    IF k \in DOMAIN initialOptions THEN initialOptions[k]
    ELSE IF k \in DOMAIN getEnvironmentOverrides(env)
    THEN getEnvironmentOverrides(env)[k]
    ELSE IF k \in DOMAIN fileConfig THEN fileConfig[k]
    ELSE Lookup(defaultConfig, k)

\* C5: after a successful initialize (and until the next mutating call), every
\* key's active value is the one the merge precedence gives it.
C5_MergePrecedence ==
    (last.op = "initializeConfig" /\ last.result = "ok")
        => \A k \in AllKeys : Lookup(getConfig, k) = Precedence(k)

C5_Witness ==
    /\ Ready
    /\ last.op = "initializeConfig"
    /\ last.result = "ok"
    /\ "host" \in DOMAIN initialOptions
    /\ "host" \in DOMAIN getEnvironmentOverrides(env)
    /\ "host" \in DOMAIN fileConfig
    /\ get("host", Undef) = Str("exphost")
    /\ get("port", Undef) = Num(3000)

\* C6: when the merged configuration fails validation the registry does not become
\* Ready, the merged candidate is not installed as the active snapshot, and
\* initialize issues no write of the configuration file.
C6_FailedInitNotInstalled ==
    (last.op = "initializeConfig" /\ last.result = "error")
        => /\ ~Ready
           /\ getConfig # mergeConfig(fileConfig)
           /\ ~last.saved
           /\ \A i \in 1..Len(saves) : saves[i].owner # "init"

\* C7: an updateConfig or reset called while the registry is not Ready does not
\* change the active snapshot, notify a watcher or issue a persist.
C7_MutationsRequireReady ==
    (last.op \in {"updateConfig", "reset"} /\ ~last.ready)
        => /\ getConfig = oldConfig
           /\ notified = <<>>
           /\ ~last.saved

\* C8: a successful updateConfig notifies the watchers of a key if and only if the
\* key's new value differs from its old value.
C8_NotifyIffChanged ==
    (last.op = "updateConfig" /\ last.result = "ok")
        => \A k \in DOMAIN watchers :
               NotifiedFor(k) # <<>> <=> Lookup(getConfig, k) # Lookup(oldConfig, k)

\* C9: when updateConfig or reset changes a key's value, every callback registered
\* for the key is invoked during the call, once each, in registration order, with
\* (newValue, oldValue, key).
C9_NotifyInOrder ==
    (last.op \in {"updateConfig", "reset"} /\ last.result = "ok")
        => \A k \in DOMAIN watchers :
               Lookup(getConfig, k) # Lookup(oldConfig, k)
                   => NotifiedFor(k) =
                          [i \in 1..Len(watchers[k]) |->
                              Invocation(watchers[k][i], Lookup(getConfig, k),
                                         Lookup(oldConfig, k), k)]

\* A closure returned by watchConfig(key, callback) that has not been called yet.
LiveHandle(key, callback) ==
    \E i \in 1..Len(handles) :
        handles[i].key = key /\ handles[i].callback = callback /\ ~handles[i].called

\* C10: every watchConfig call makes its own registration, which only its own
\* handle removes: on a change of the key a callback is invoked exactly when one
\* of the handles returned for it has not been called yet.
C10_OwnRegistration ==
    (last.op = "updateConfig" /\ last.result = "ok")
        => \A k \in DOMAIN lastArg, cb \in Callbacks :
               Lookup(getConfig, k) # Lookup(oldConfig, k)
                   => (LiveHandle(k, cb)
                          <=> \E i \in 1..Len(notified) :
                                  notified[i].key = k /\ notified[i].callback = cb)

\* How many times the last call invoked one callback for one key.
Times(key, callback) ==
    Cardinality({i \in 1..Len(notified) :
                    notified[i].key = key /\ notified[i].callback = callback})

\* C11: when a callback threw during the notifications of an updateConfig or a
\* reset, the call still returned successfully, the active snapshot holds the new
\* values, and every callback registered for a key whose value changed was
\* invoked exactly once.
C11_WatcherIsolation ==
    (/\ last.op \in {"updateConfig", "reset"}
     /\ \E i \in 1..Len(notified) : throws(notified[i].callback))
    => /\ last.result = "ok"
       /\ config = (IF last.op = "reset" THEN defaultConfig
                    ELSE Spread(oldConfig, lastArg))
       /\ \A k \in DOMAIN watchers :
              Lookup(oldConfig, k) # Lookup(config, k)
              => \A j \in 1..Len(watchers[k]) : Times(k, watchers[k][j]) = 1

\* The first callback of a key threw and the second one was still invoked, in an
\* update that changed another key as well.
C11_Witness ==
    /\ last.op = "updateConfig"
    /\ Len(notified) = 2
    /\ throws(notified[1].callback)
    /\ ~throws(notified[2].callback)
    /\ notified[1].key = notified[2].key
    /\ Lookup(oldConfig, "port") # Lookup(config, "port")

\* C12: a callback whose unwatch closure has been called, and which has not been
\* passed to watchConfig for that key since, is not invoked by any later call.
C12_UnsubscribedNeverInvoked ==
    \A i \in 1..Len(notified) :
        Pair(notified[i].key, notified[i].callback) \notin unsubscribed

\* An update changed logLevel after cb1 was unwatched: the callback still
\* registered was invoked, cb1 was not.
C12_Witness ==
    /\ last.op = "updateConfig"
    /\ last.result = "ok"
    /\ Pair("logLevel", "cb1") \in unsubscribed
    /\ Lookup(oldConfig, "logLevel") # Lookup(config, "logLevel")
    /\ notified # <<>>
    /\ Times("logLevel", "cb1") = 0

\* C13: a reset() that follows a reset() with no other call in between, or that
\* begins with the snapshot a reset() leaves, invokes no callback and leaves the
\* snapshot as it was.
C13_ResetIdempotent ==
    (last.op = "reset" /\ (last.again \/ oldConfig = defaultConfig))
    => (notified = <<>> /\ config = oldConfig)

\* A second reset() in a row, with a watcher registered on logLevel.
C13_Witness ==
    /\ last.op = "reset"
    /\ last.again
    /\ last.ready
    /\ "logLevel" \in DOMAIN watchers

\* C14: after reset() the active snapshot is the computed defaults, and the
\* callbacks invoked are exactly those registered for the keys whose value
\* differs between the snapshot before the call and the defaults, keys absent
\* from the snapshot before the call included.
C14_ResetNotifiesChanged ==
    last.op = "reset"
    => /\ config = defaultConfig
       /\ \A k \in DOMAIN watchers : \A j \in 1..Len(watchers[k]) :
              Times(k, watchers[k][j]) =
                  (IF Lookup(oldConfig, k) # Lookup(defaultConfig, k) THEN 1 ELSE 0)

\* A candidate's value for a key breaks the key's rule: it is required and
\* missing or empty, or it is present and of another type, out of range, of a
\* wrong length or outside the enumeration.
Violates(cfg, key) ==
    LET rule == getValidationRules[key]
        value == Lookup(cfg, key)
    IN \/ rule.required /\ value \in {Undef, Null, Str("")}
       \/ value \notin {Undef, Null} /\ value.t # rule.type
       \/ value.t = "number" /\ rule.hasMin /\ value.n < rule.min
       \/ value.t = "number" /\ rule.hasMax /\ value.n > rule.max
       \/ value.t = "string" /\ rule.hasMinLength /\ Len(value.s) < rule.minLength
       \/ value.t = "string" /\ rule.hasMaxLength /\ Len(value.s) > rule.maxLength
       \/ value.t = "string" /\ rule.enum # {} /\ value.s \notin rule.enum

\* C15: the validation error an updateConfig threw has a message for every key
\* of the candidate that breaks its rule, and for no other key.
C15_AllViolationsReported ==
    (last.op = "updateConfig" /\ last.result = "error")
    => \A key \in RuleKeys :
           Violates(Spread(oldConfig, lastArg), key)
           <=> \E i \in 1..Len(last.errors) : last.errors[i].key = key

\* An update with an out-of-range number, an empty string and a missing required
\* field was refused with three messages.
C15_Witness ==
    /\ last.op = "updateConfig"
    /\ last.result = "error"
    /\ last.ready
    /\ lastArg = [port |-> Num(0), host |-> Str(""), geminiApiKey |-> Undef]
    /\ Len(last.errors) = 3

\* C16: no backup() replaces a backup file: a file that is on disk stays on
\* disk with the content it has, whatever backup() is called next, at a later
\* clock reading or at the same one.
C16_BackupNeverReplaced ==
    [][\A p \in DOMAIN artifacts :
           p \in DOMAIN artifacts' /\ artifacts'[p].content = artifacts[p].content]_vars

\* C17: a restore() of a backup file that does not parse, or whose content
\* spread over the active snapshot fails validation, throws, leaves the active
\* snapshot as it was before the call and invokes no callback.
C17_RestoreRejected ==
    (/\ last.op = "restore"
     /\ \/ last.io = "corrupt"
        \/ last.io = "" /\ validateConfig(Spread(oldConfig, lastArg)) # <<>>)
    => (last.result = "error" /\ config = oldConfig /\ notified = <<>>)

\* A restore() of the file whose port is out of range was refused, with the
\* registry Ready and the port watched.
C17_Witness ==
    /\ last.op = "restore"
    /\ last.path = InvalidPath
    /\ last.io = ""
    /\ last.ready
    /\ Lookup(lastArg, "port") = Num(70000)
    /\ "port" \in DOMAIN watchers
    /\ \E i \in 1..Len(last.errors) : last.errors[i].key = "port"

\* Two values are equal as values: arrays by their content, not their identity.
ValueEqual(a, b) == a.t = b.t /\ a.s = b.s /\ (a.t # "object" => a.n = b.n)

C19_PersistenceFailuresAbsorbed ==
    [][/\ (initializeConfig(TRUE) \/ (file.kind = "corrupt" /\ initializeConfig(FALSE)))
          => /\ config' = mergeConfig(EmptyObj)
             /\ last'.result = "ok" <=> validateConfig(mergeConfig(EmptyObj)) = <<>>
       /\ \A i \in 1..Len(saves) :
              saveFailed(i)
              => /\ config' = config
                 /\ last' = last
                 /\ notified' = notified
                 /\ saves[i].owner = "init" => initPc' = "done"]_vars

\* The registry is Ready although the file did not parse at the load and the
\* save of initializeConfig failed: the file on disk is still the corrupt one.
C19_Witness ==
    /\ Ready
    /\ last.op = "initializeConfig"
    /\ last.result = "ok"
    /\ file = Corrupt
    /\ fileOrigin = "external"
    /\ saves = <<>>

\* C20 as stated: a restore() whose file cannot be read and a backup() whose
\* write fails return without throwing.
C20_BackupFailuresNotRaised ==
    (last.op \in {"backup", "restore"} /\ last.io = "failed")
    => last.result = "ok"

\* C20 amended: a restore() whose file cannot be read and a backup() whose write
\* fails throw the I/O error to the caller; the active snapshot is as it was,
\* no callback is invoked and no save is issued.
C20_BackupFailuresRaised ==
    (last.op \in {"backup", "restore"} /\ last.io = "failed")
    => /\ last.result = "error"
       /\ ~last.saved
       /\ config = oldConfig
       /\ notified = <<>>

\* A restore() of a path that has no file failed, with the registry Ready and
\* the port watched.
C20_Witness ==
    /\ last.op = "restore"
    /\ last.io = "failed"
    /\ last.path = MissingPath
    /\ last.ready
    /\ "port" \in DOMAIN watchers

\* A step of the asynchronous part of the registry: the load and merge of
\* initializeConfig, or a step of a saveConfigToFile in flight.
AsyncStep == (\E b \in BOOLEAN : initializeConfig(b)) \/ Persist

\* C21: once an updateConfig or a reset has succeeded, no asynchronous step that
\* completes after it changes the active snapshot: the snapshot stays the one
\* the calls made in the order they were issued.
C21_SnapshotInCallOrder ==
    [][(last.op \in {"updateConfig", "reset"} /\ last.result = "ok" /\ AsyncStep)
       => config' = config]_vars

\* C22: persistence is unserialized: whichever writes are in flight, each of
\* them may be the next to take effect, whatever the order of the calls.
C22_WritesUnserialized ==
    \A i \in 1..Len(saves) : saves[i].phase = "write" => ENABLED saveWriteDone(i)

\* The race lost: the registry is Ready, the last update succeeded, every save
\* has written and none has failed, and the file is not the text of the active
\* snapshot without its API key.
C22_Witness ==
    /\ Ready
    /\ last.op = "updateConfig"
    /\ last.result = "ok"
    /\ last.ready
    /\ saves = <<>>
    /\ fileOrigin = "saved"
    /\ file # Json(JSONstringify(cleanConfig))

\* A call of updateConfig (set), reset or restore, under SpecPersist.
MutatingCall ==
    \/ \E u \in RaceUpdates : updateConfig(u)
    \/ reset
    \/ \E p \in PersistPaths : restore(p, FALSE)

\* C23: when an updateConfig, a reset or a restore returns successfully, the
\* candidate has been validated (reset installs the defaults unvalidated) and
\* is the active snapshot, the watchers of the updated keys have been invoked,
\* and the save the call issued is in flight at its first await: the file is as
\* it was before the call.
C23_PersistAfterReturn ==
    [][(MutatingCall /\ last'.result = "ok")
       => /\ config' = (IF last'.op = "reset" THEN defaultConfig
                        ELSE Spread(config, lastArg'))
          /\ last'.op # "reset" => validateConfig(config') = <<>>
          /\ last'.op # "reset" =>
                 \A k \in DOMAIN lastArg' \cap DOMAIN watchers :
                     \E i \in 1..Len(notified') : notified'[i].key = k
          /\ Len(saves') = Len(saves) + 1
          /\ saves'[Len(saves')].phase = "mkdir"
          /\ file' = file
          /\ fileOrigin' = fileOrigin]_vars

\* A watcher has been invoked with a port that get() returns and that the file,
\* written by an earlier save, does not hold yet.
C23_Witness ==
    /\ last.op = "updateConfig"
    /\ last.result = "ok"
    /\ last.ready
    /\ Len(notified) = 1
    /\ notified[1].newValue = get("port", Undef)
    /\ fileOrigin = "saved"
    /\ Lookup(JSONparse(file.content), "port") # get("port", Undef)
    /\ saves # <<>>

\* C24: the load of initializeConfig never fails it.  An absent file gives an
\* empty mapping and no warning; a file that cannot be read or does not parse
\* gives an empty mapping and a warning; in both cases the merge is made of the
\* defaults, the environment overrides and the explicit options only, and
\* initializeConfig goes on to validate it.
C24_LoadNeverFails ==
    [][\A b \in BOOLEAN :
           (initializeConfig(b) /\ (b \/ file.kind # "json"))
           => /\ fileConfig' = EmptyObj
              /\ loadWarns(b) <=> (b \/ file.kind = "corrupt")
              /\ config' = Spread(Spread(defaultConfig, getEnvironmentOverrides(env)),
                                  initialOptions)
              /\ initPc' = (IF validateConfig(config') = <<>> THEN "saving"
                            ELSE "failed")]_vars

\* initializeConfig has merged and validated with a file on disk that does not
\* parse; its save is in flight.
C24_Witness ==
    /\ last.op = "initializeConfig"
    /\ last.result = "ok"
    /\ initPc = "saving"
    /\ file = Corrupt
    /\ fileConfig = EmptyObj
    /\ Lookup(config, "host") = Str("exphost")

\* The messages of the validation error of the last call that are about one key.
ErrorsFor(key) == SelectSeq(last.errors, LAMBDA m : m.key = key)

\* C25: in the candidate of an updateConfig, a required key whose value is
\* undefined, null or the empty string has the one message "is required" and no
\* other, and a key that is not required and whose value is undefined or null
\* has no message.
C25_RequiredOnly ==
    last.op = "updateConfig"
    => \A key \in RuleKeys :
           LET rule == getValidationRules[key]
               value == Lookup(Spread(oldConfig, lastArg), key)
           IN /\ (rule.required /\ value \in {Undef, Null, Str("")})
                 => ErrorsFor(key) = <<Msg(key, "is required", 0)>>
              /\ (~rule.required /\ value \in {Undef, Null})
                 => ErrorsFor(key) = <<>>

\* An update that empties the host and takes away the port and the log level
\* was refused with the one message that the host is required.
C25_Witness ==
    /\ last.op = "updateConfig"
    /\ last.result = "error"
    /\ last.ready
    /\ lastArg = [host |-> Str(""), port |-> Undef, logLevel |-> Null]
    /\ last.errors = <<Msg("host", "is required", 0)>>

\* C26: on a valid snapshot, set(key, v) of a key whose rule has a minimum and a
\* maximum succeeds and installs v when min <= v <= max, the endpoints
\* included, and is refused with "<key> must be at least <min>" as its message
\* when v < min and with "<key> must be at most <max>" when v > max, the
\* snapshot staying as it was.
C26_BoundsInclusive ==
    [][\A key \in NumberKeys : \A v \in BoundValues(key) :
        (set(key, Num(v)) /\ validateConfig(config) = <<>>)
        => LET rule == getValidationRules[key]
           IN /\ (rule.min <= v /\ v <= rule.max)
                 => last'.result = "ok" /\ Lookup(config', key) = Num(v)
              /\ v < rule.min
                 => /\ last'.result = "error"
                    /\ last'.errors = <<Msg(key, "must be at least", rule.min)>>
                    /\ config' = config
              /\ v > rule.max
                 => /\ last'.result = "error"
                    /\ last'.errors = <<Msg(key, "must be at most", rule.max)>>
                    /\ config' = config]_vars

\* set('port', 65535) on the valid snapshot of a finished initialization
\* succeeded, and set('port', 70000) after it was refused with "port must be at
\* most 65535", the port staying 65535.
C26_Witness ==
    /\ last.op = "updateConfig" /\ last.result = "error"
    /\ lastArg = [port |-> Num(70000)]
    /\ last.errors = <<Msg("port", "must be at most", 65535)>>
    /\ validateConfig(config) = <<>>
    /\ Lookup(config, "port") = Num(65535)

\* The watchConfig calls whose handle has not been called.
Registrations == {i \in 1..Len(handles) : ~handles[i].called}

\* C27: every key of the watcher map has a non-empty set of callbacks, and
\* getStats().watchersCount is the number of registrations that watchConfig
\* created and whose own handle has not removed them.
C27_WatchersCounted ==
    /\ \A key \in DOMAIN watchers : watchers[key] # <<>>
    /\ getStats.watchersCount = Cardinality(Registrations)

\* The key the claim gives an environment name: the prefix stripped, the rest
\* lower-cased, the underscores deleted.
Normalized == [BOT_HOST |-> "host", BOT_PORT |-> "port", BOT_TICK_RATE |-> "tickrate"]

\* C28: the environment overrides initializeConfig merges are the BOT_ names of
\* the environment under their normalized keys with the raw strings as values;
\* with BOT_TICK_RATE set, the merged snapshot has the string under "tickrate",
\* tickRate keeps the value of the defaults, the file or the explicit options,
\* and validation has no message about either key.
C28_OverrideKeys ==
    [][\A b \in BOOLEAN : initializeConfig(b)
        => LET names == DOMAIN env \cap DOMAIN Normalized
               errors == validateConfig(config')
           IN /\ getEnvironmentOverrides(env) =
                    [k \in {Normalized[n] : n \in names} |->
                        Str(env[CHOOSE n \in names : Normalized[n] = k])]
              /\ "BOT_TICK_RATE" \in DOMAIN env
                 => /\ Lookup(config', "tickrate") =
                           IF "tickrate" \in DOMAIN initialOptions
                           THEN initialOptions["tickrate"]
                           ELSE Str(env["BOT_TICK_RATE"])
                    /\ Lookup(config', "tickRate") =
                           Lookup(Spread(Spread(defaultConfig, fileConfig'),
                                         initialOptions), "tickRate")
                    /\ \A i \in 1..Len(errors) :
                           errors[i].key \notin {"tickRate", "tickrate"}]_vars

\* An initialization with BOT_TICK_RATE=5 in the environment succeeded: the
\* snapshot has tickrate "5" next to tickRate 20.
C28_Witness ==
    /\ last.op = "initializeConfig" /\ last.result = "ok"
    /\ "BOT_TICK_RATE" \in DOMAIN env
    /\ Lookup(config, "tickrate") = Str("5")
    /\ Lookup(config, "tickRate") = Num(20)

\* The keys with a number rule that a BOT_ name of the environment overrides.
OverriddenNumberKeys ==
    {k \in DOMAIN getEnvironmentOverrides(env) :
        k \in DOMAIN getValidationRules /\ getValidationRules[k].type = "number"}

\* initializeConfig fails validation with "<key> must be a number".
FailsNotANumber(key) ==
    /\ initPc' = "failed"
    /\ last'.result = "error"
    /\ \E i \in 1..Len(validateConfig(config')) :
           validateConfig(config')[i] = Msg(key, "must be a number", 0)

\* C29 as stated: with a BOT_ name for a key whose rule has type number in the
\* environment, initializeConfig fails with "<key> must be a number" unless an
\* explicit override gives the key a number.
C29_OverrideNotCoerced ==
    [][\A b \in BOOLEAN, key \in OverriddenNumberKeys :
        (initializeConfig(b) /\ Lookup(initialOptions, key).t # "number")
        => FailsNotANumber(key)]_vars

\* C29: with a BOT_ name for a key whose rule has type number in the
\* environment, initializeConfig fails with "<key> must be a number" unless an
\* explicit override gives the key a number, undefined or null; with an explicit
\* undefined or null validation has no message about the key.
C29_OverrideNotCoercedUnlessSet ==
    [][\A b \in BOOLEAN, key \in OverriddenNumberKeys :
        initializeConfig(b)
        => /\ (key \notin DOMAIN initialOptions
                 \/ initialOptions[key].t \notin {"number", "undefined", "null"})
              => FailsNotANumber(key)
           /\ (key \in DOMAIN initialOptions /\ initialOptions[key] \in {Undef, Null})
              => \A i \in 1..Len(validateConfig(config')) :
                     validateConfig(config')[i].key # key]_vars

\* With BOT_PORT=25565 and no explicit option, initialization failed on the
\* string "25565" of the port.
C29_Witness ==
    /\ last.op = "initializeConfig" /\ last.result = "error"
    /\ initPc = "failed"
    /\ "BOT_PORT" \in DOMAIN env /\ env["BOT_PORT"] = "25565"
    /\ initialOptions = EmptyObj
    /\ Lookup(config, "port") = Str("25565")
    /\ validateConfig(config) = <<Msg("port", "must be a number", 0)>>

\* The declared keys that read one input: the name of the input, the hard-coded
\* default and the declared type.
Declared ==
    [port |-> [name |-> "MINECRAFT_PORT", default |-> Num(19132), type |-> "int"],
     combatDistance |-> [name |-> "COMBAT_DISTANCE", default |-> Num(3), type |-> "number"],
     autoResponse |-> [name |-> "AUTO_RESPONSE", default |-> Bool(TRUE), type |-> "boolean"],
     aggressiveMode |-> [name |-> "AGGRESSIVE_MODE", default |-> Bool(FALSE),
                         type |-> "boolean"],
     host |-> [name |-> "MINECRAFT_HOST", default |-> Str("localhost"), type |-> "string"],
     logLevel |-> [name |-> "LOG_LEVEL", default |-> Str("info"), type |-> "string"],
     tickRate |-> [name |-> "TICK_RATE", default |-> Num(20), type |-> "int"]]

\* The number an input text is read as, by declared type; no entry when the text
\* does not parse.
Parses == [int |-> [x \in {"1e1"} |-> 1], number |-> [x \in {"1e1"} |-> 10]]

\* The value the claim gives a declared key for the input text of the
\* environment.
Coerced(key) ==
    LET d == Declared[key]
        input == IF d.name \in DOMAIN env THEN env[d.name] ELSE ""
    IN IF input = "" THEN d.default
       ELSE CASE d.type \in {"int", "number"} ->
                     IF input \in DOMAIN Parses[d.type]
                     THEN Num(Parses[d.type][input]) ELSE d.default
              [] d.type = "boolean" -> Bool(input \in {"true", "TRUE", "True"})
              [] OTHER -> Str(input)

\* C30: the defaults computed at construction have every declared key, whatever
\* the environment; a key has its hard-coded default when its input is absent,
\* empty or, for an int or number key, does not parse, and the coerced input
\* otherwise, a boolean key being true exactly for "true" in any case; a second
\* computation on the same environment gives the same defaults.
C30_ComputeDefaultsTotal ==
    /\ DOMAIN defaultConfig = DOMAIN getDefaultConfig([GEMINI_API_KEY |-> "envkey"])
    /\ \A key \in DOMAIN Declared : defaultConfig[key] = Coerced(key)
    /\ getDefaultConfig(env) = defaultConfig

\* A registry whose defaults were computed from AUTO_RESPONSE=abc,
\* AGGRESSIVE_MODE=TRUE, MINECRAFT_PORT=abc and COMBAT_DISTANCE=1e1 has been
\* reset to them.
C30_Witness ==
    /\ last.op = "reset"
    /\ env = [GEMINI_API_KEY |-> "envkey", AUTO_RESPONSE |-> "abc",
              AGGRESSIVE_MODE |-> "TRUE", MINECRAFT_PORT |-> "abc",
              COMBAT_DISTANCE |-> "1e1"]
    /\ Lookup(config, "autoResponse") = Bool(FALSE)
    /\ Lookup(config, "aggressiveMode") = Bool(TRUE)
    /\ Lookup(config, "port") = Num(19132)
    /\ Lookup(config, "combatDistance") = Num(10)

\* Every callback a call invoked found get(key) equal to the newValue it was
\* given, and, when no callback mutated the registry, was given as oldValue what
\* get(key) returned before the call.
SeesNewValue(done, before) ==
    \A i \in 1..Len(done.notified) :
        /\ done.seen[i] = done.notified[i].newValue
        /\ done.issued = 1
           => done.notified[i].oldValue = Lookup(before, done.notified[i].key)

\* C31: when a watcher callback is invoked with (newValue, oldValue, key),
\* get(key) returns newValue and oldValue is what get(key) returned before the
\* change, also when an earlier callback of the same round called set.
C31_CallbackSeesNewValue ==
    [][/\ \A u \in ReentrantUpdates :
             updateConfig(u) => SeesNewValue(updateConfigIn(Round(config), u), config)
       /\ reset => SeesNewValue(resetIn(Round(config)), config)]_vars

\* C32: the text a save builds is the redaction of the snapshot that was active
\* when the call that issued the save returned, whatever a later call made of
\* this.config: it has that snapshot's value for every key that is not secret,
\* and that snapshot passed validation.
C32_PersistWritesIssuedSnapshot ==
    [][\A i \in 1..MaxPending :
        saveMkdirDone(i)
        => /\ \A k \in AllKeys \ SecretFieldSet :
                  Lookup(saves'[i].content, k) = Lookup(JSONstringify(saves[i].active), k)
           /\ validateConfig(saves[i].active) = <<>>]_vars

\* An updateConfig or restore call of SpecFrame.
ValidatingCall ==
    \/ \E u \in FrameUpdates : updateConfig(u)
    \/ \E p \in FramePaths : restore(p, FALSE)

\* C33: an updateConfig or restore call that fails validation invokes no
\* callback and issues no save, and leaves the watcher registrations and the
\* configuration file as they were.
C33_FailedCallFrame ==
    [][(last'.errors # <<>> /\ ValidatingCall)
        => /\ last'.result = "error"
           /\ notified' = <<>>
           /\ saves' = saves
           /\ watchers' = watchers /\ handles' = handles
           /\ file' = file /\ fileOrigin' = fileOrigin]_vars

\* set('port', 70000) was refused when the registry was Ready, the port was
\* watched and the file had been written.
C33_Witness ==
    /\ last.op = "updateConfig" /\ last.result = "error" /\ last.ready
    /\ lastArg = [port |-> Num(70000)]
    /\ last.errors = <<Msg("port", "must be at most", 65535)>>
    /\ "port" \in DOMAIN watchers
    /\ fileOrigin = "saved"
    /\ notified = <<>>

\* C34: a successful updateConfig(updates) leaves every key that is not in
\* updates with the value it had and invokes no callback for such a key; with
\* one key in updates, as set(key, value) has, at most that key changes and is
\* notified.
C34_UpdateFrame ==
    [][\A u \in KeyUpdates :
        (last'.op = "updateConfig" /\ last'.result = "ok" /\ updateConfig(u))
        => /\ DOMAIN config' = DOMAIN config \cup DOMAIN u
           /\ \A k \in AllKeys \ DOMAIN u : Lookup(config', k) = Lookup(config, k)
           /\ \A i \in 1..Len(notified') : notified'[i].key \in DOMAIN u]_vars

\* set('port', 25565) succeeded with callbacks on the port and on the log level:
\* only the port callback was invoked, and the log level is what it was.
C34_Witness ==
    /\ last.op = "updateConfig" /\ last.result = "ok" /\ last.ready
    /\ lastArg = [port |-> Num(25565)]
    /\ Lookup(oldConfig, "port") = Num(19132)
    /\ DOMAIN watchers = {"port", "logLevel"}
    /\ notified = <<Invocation("cb1", Num(25565), Num(19132), "port")>>
    /\ Lookup(config, "logLevel") = Lookup(oldConfig, "logLevel")

\* C35: restore() is a merge.  A successful restore leaves every key that the
\* backup file does not hold with the value it had, and keeps every key of the
\* snapshot; a file that backup() wrote holds no secret key, so that restoring
\* it leaves the secret keys and every key added after the backup as they were.
C35_RestoreMerges ==
    [][\A p \in MergePaths :
        (last'.result = "ok" /\ restore(p, FALSE))
        => LET backupConfig == JSONparse(artifacts[p].content)
           IN /\ DOMAIN config \subseteq DOMAIN config'
              /\ \A k \in AllKeys \ DOMAIN backupConfig :
                     Lookup(config', k) = Lookup(config, k)
              /\ p \in 0..MaxClock
                 => /\ DOMAIN backupConfig \cap SecretFieldSet = {}
                    /\ \A k \in SecretFieldSet \cup
                                (DOMAIN config \ DOMAIN artifacts[p].snapshot) :
                           Lookup(config', k) = Lookup(config, k)]_vars

\* A restore() of a file that backup() wrote brought the port back, and left
\* in place the webhook address set after the backup, the key added after the
\* backup and the API key.
C35_Witness ==
    /\ last.op = "restore"
    /\ last.result = "ok"
    /\ last.path \in 0..MaxClock
    /\ Lookup(oldConfig, "port") = Num(25565)
    /\ Lookup(config, "port") = Num(19132)
    /\ Lookup(artifacts[last.path].snapshot, "webhookUrl") = Undef
    /\ "tickrate" \notin DOMAIN artifacts[last.path].snapshot
    /\ Lookup(config, "webhookUrl") = Str("https://hook")
    /\ Lookup(config, "tickrate") = Str("5")
    /\ Lookup(config, "geminiApiKey") = Str("envkey")

\* The configuration file of a backup() that has returned holds the snapshot as
\* it is now: no mutation came between the backup and this state.
BackedUp(p) ==
    /\ p \in DOMAIN artifacts
    /\ backups = <<>>
    /\ artifacts[p].snapshot = config

\* C36: a backup() followed at once by a restore() of the file it wrote is a
\* round trip.  From a Ready state whose snapshot passes validation, the restore
\* succeeds and every key of the snapshot has a value equal to the one it had.
C36_BackupRestoreRoundTrip ==
    [][\A p \in 0..MaxClock :
        (Ready /\ validateConfig(config) = <<>> /\ BackedUp(p) /\ restore(p, FALSE))
        => /\ last'.result = "ok"
           /\ \A k \in AllKeys :
                  ValueEqual(Lookup(config', k), Lookup(config, k))]_vars

\* The same round trip from the snapshots that hold no NaN.
C36_RoundTripOfJsonValues ==
    [][\A p \in 0..MaxClock :
        (Ready /\ validateConfig(config) = <<>> /\ BackedUp(p)
         /\ (\A k \in DOMAIN config : config[k] # NaN) /\ restore(p, FALSE))
        => /\ last'.result = "ok"
           /\ \A k \in AllKeys :
                  ValueEqual(Lookup(config', k), Lookup(config, k))]_vars

\* A call that replaces the active snapshot: the merge of initializeConfig, an
\* updateConfig (set) or a reset.
Mutation == initializeConfig(FALSE) \/ MutatingCall

\* The last call was a mutation and it succeeded.
Mutated == last.op \in {"initializeConfig", "updateConfig", "reset"} /\ last.result = "ok"

\* The file holds the text of the active snapshot without the keys of the
\* SecretFieldSet.
Persisted == file = Json(JSONstringify(getPublicConfig))

\* The file holds the text saveConfigToFile makes of the active snapshot.
Written == file = Json(JSONstringify(cleanConfig))

\* From some time on no mutation is made, and the last call made is a mutation
\* that succeeded.
Settled == <>[][~Mutation]_vars /\ <>[]Mutated

\* C37: persistence catches up.  With the asynchronous steps scheduled fairly
\* and no I/O failure, when a successful mutation is followed by no other
\* mutation, there is a time at which the configuration file holds the active
\* snapshot that mutation left, without the keys of the SecretFieldSet.
C37_EventuallyPersisted == Settled => <>(Mutated /\ Persisted)

\* The same for the text that saveConfigToFile makes of the snapshot: the file
\* holds it at some time.
C37_EventuallyWritten == Settled => <>(Mutated /\ Written)

\* The file holds that text from some time on.
C37_WrittenForGood == Settled => <>[]Written

\* A call of a read operation, with or without a write by the caller to the
\* object it returned.
ReadCall ==
    \/ \E op \in ReadOps : read(op)
    \/ \E op \in CopyOps, k \in CallerKeys, v \in CallerValues : callerWrites(op, k, v)

Fallbacks == {Undef, Num(0), Str("none")}

\* C38: the read operations have no effect.  A call of get, has, getConfig,
\* getPublicConfig or getStats succeeds and leaves the active snapshot, the
\* watcher registrations, the configuration file and the saves in flight as they
\* were, also when the caller then reassigns, adds or deletes a top-level key of
\* the object getConfig or getPublicConfig returned: every later get and
\* getConfig gives what it gave before.  And get(key, fallback) gives the
\* fallback, whichever it is, exactly when has(key) is false.
C38_ReadsHaveNoEffect ==
    [][ReadCall
       => /\ last'.result = "ok"
          /\ config' = config
          /\ watchers' = watchers
          /\ handles' = handles
          /\ file' = file
          /\ saves' = saves
          /\ getConfig' = getConfig
          /\ getStats' = getStats
          /\ \A k \in AllKeys :
                 /\ \A f \in Fallbacks : get(k, f)' = get(k, f)
                 /\ has(k)' = has(k)
                 /\ ~has(k) <=> \A f \in Fallbacks : get(k, f) = f]_vars

\* The caller of getConfig() holds an object whose port it has set to 1, while
\* get gives the port an update installed, the watcher on the port is counted,
\* and for webhookUrl, which has no value, has is false and get gives the
\* fallback.
C38_Witness ==
    /\ last.op = "getConfig"
    /\ last.ready
    /\ Lookup(lastArg, "port") = Num(1)
    /\ get("port", Undef) = Num(25565)
    /\ getStats.watchersCount = 1
    /\ "webhookUrl" \in DOMAIN getConfig
    /\ ~has("webhookUrl")
    /\ get("webhookUrl", Str("none")) = Str("none")

====
